---- MODULE Spec2Model ----
(***************************************************************************)
(* A model of the kyros repository: the in-page helpers MobileOptimizer    *)
(* (src/unnamed/part_000) and WebGLFallback (src/test-prod.mjs), the page  *)
(* initialisation of MOBILE-OPTIMIZATION-GUIDE.md, and the puppeteer       *)
(* diagnostic scripts.                                                     *)
(*                                                                         *)
(* Strings the code matches with regular expressions or String.includes    *)
(* are sequences of word tokens; a device pixel ratio is an integer, 0     *)
(* standing for a missing (falsy) window.devicePixelRatio.                 *)
(***************************************************************************)
EXTENDS Integers, Sequences, FiniteSets, TLC

VARIABLES
  pc,            \* position of the page in the guide's init(): "load", "optimizer", "fallback", "renderer", "running"
  navUA,         \* navigator.userAgent
  winDPR,        \* window.devicePixelRatio
  gl,            \* what canvas.getContext('webgl') and the queries on it answer in this browser
  htmlCanvases,  \* the canvas elements of the static page, in document order
  perfMemory,    \* whether window.performance.memory exists
  windowAnimate, \* whether the page defines window.animate
  opt,           \* the MobileOptimizer instance
  returned,      \* <<>>, or <<method, result>> of the last call on the optimizer
                 \* (with the texture passed as third element, if one was)
  canvases,      \* the canvas elements of the document, in document order: "3d", "2d" or "fallback"
  fb,            \* the WebGLFallback instance
  rafChains,     \* the fallback animation loops with a requestAnimationFrame callback pending
  notifications, \* fallback notification banners in the document (each with its removal timer pending)
  resizeListeners, \* 'resize' listeners the fallback has registered on window
  fbStats,       \* how often the fallback mounted a canvas, started a loop, showed a banner
  fbCalls,       \* calls of webglFallback.handleWebGLContextLoss() so far
  renderer,      \* the THREE.WebGLRenderer of the page
  protection,    \* whether the optimizer's context-loss listeners are on the 3D canvas
  monitors,      \* running memory-monitor intervals
  overlays,      \* full-screen overlays of showFallbackMessage in the document
  reloadTimers,  \* pending timers that will call window.location.reload()
  lossEvents,    \* webglcontextlost events fired on the 3D canvas since the page loaded
  lastCleanup,   \* the cleanups the last memory-monitor tick called
  script,        \* the automation script that runs
  reachable,     \* whether the script's target URL answers
  spc,           \* the script's position
  profile,       \* index of the device profile under test (0: the script has none)
  browsers,      \* browser instances open
  listening,     \* whether the script's pageerror listener is on the page
  navDelay,      \* seconds the pending navigation would need to settle by itself (-1: never)
  navSeconds,    \* seconds the last navigation took to resolve or reject
  gotos,         \* calls of page.goto in the current browser session
  pending,       \* message of the exception in flight ("": none)
  thrown,        \* the uncaught errors the page has thrown in this session
  errors,        \* the script's errors array
  results,       \* the per-profile result records, in test order
  crashPoints,   \* entries of SafariDiagnostics.crashPoints
  printed,       \* kinds of lines on the script's output
  files,         \* report files written
  exitStatus,    \* the process exit status (-1: still running)
  navFailed,     \* a navigation or readiness wait has failed
  ranAfterFailure, \* a later test step started after a navigation failure
  workdir,       \* the report files of the working directory, by name
  summary,       \* what MobileDeviceTester.generateSummaryReport has read and printed
  touchListeners, \* touch listeners optimizeTouchGestures has registered on document
  pageOrbitals,  \* window.orbitalObjects and its objects as the page's script creates them
  orbitals,      \* window.orbitalObjects and its objects now
  crossSummary,  \* totalTests and successfulTests as generateCrossBrowserReport computed them
  runner         \* the MobileDeviceTester process: position, steps begun, exit status

envVars == <<navUA, winDPR, gl, htmlCanvases, perfMemory, windowAnimate>>
optVars == <<opt, returned>>
fbVars == <<fb, rafChains, notifications, resizeListeners, fbStats, fbCalls>>
pageVars == <<renderer, protection, monitors, overlays, reloadTimers, lossEvents, lastCleanup>>

pageAll == <<pc, envVars, optVars, canvases, fbVars, pageVars>>
scriptVars == <<script, reachable, spc, profile, browsers, listening, navDelay, navSeconds, gotos,
                pending, thrown, errors, results, crashPoints, printed, files, exitStatus,
                navFailed, ranAfterFailure>>

runnerVars == <<workdir, summary>>
orbitalVars == <<pageOrbitals, orbitals>>

vars == <<pageAll, scriptVars, runnerVars, touchListeners, orbitalVars, crossSummary, runner>>

(***************************************************************************)
(* Bounds of the model.                                                    *)
(***************************************************************************)
MaxUALen == 2
MaxHtmlCanvases == 2
MaxFallbackCalls == 2
MaxFrames == 2
MaxLossEvents == 2
MaxPageErrors == 1
MaxGestureCalls == 2
MaxOrbitals == 3

(***************************************************************************)
(* User agents and the three regular expressions of the constructor.       *)
(***************************************************************************)
UATokens == {"Mozilla", "iPhone", "iphone", "Android", "Chrome", "Safari"}

SeqsUpTo(S, n) == UNION {[1..k -> S] : k \in 0..n}

UserAgents == SeqsUpTo(UATokens, MaxUALen)

DevicePixelRatios == 0..3

\* String.prototype.toLowerCase on one token (what the /i flag compares).
Lower(t) ==
  CASE t = "iPhone"  -> "iphone"
    [] t = "Android" -> "android"
    [] t = "Chrome"  -> "chrome"
    [] t = "Safari"  -> "safari"
    [] t = "Mozilla" -> "mozilla"
    [] t = "iPad"    -> "ipad"
    [] OTHER         -> t

\* A mobile test that knows the Apple devices only.
TestMobileRegex_AppleOnly(ua) ==
  \E i \in 1..Len(ua) : Lower(ua[i]) \in {"iphone", "ipad", "ipod"}

\* A mobile test that knows Android only.
TestMobileRegex_AndroidOnly(ua) ==
  \E i \in 1..Len(ua) : Lower(ua[i]) = "android"

\* /iPhone|iPad|iPod|Android/i.test(ua)
TestMobileRegex(ua) ==
  \E i \in 1..Len(ua) : Lower(ua[i]) \in {"iphone", "ipad", "ipod", "android"}

\* /^((?!chrome|android).)*safari/i.test(ua): some "safari" with no "chrome" or
\* "android" starting anywhere before it.
TestSafariRegex(ua) ==
  \E i \in 1..Len(ua) :
    /\ Lower(ua[i]) = "safari"
    /\ \A j \in 1..(i - 1) : Lower(ua[j]) \notin {"chrome", "android"}

\* /iPad|iPhone|iPod/.test(ua), case-sensitive
TestIOSRegex(ua) ==
  \E i \in 1..Len(ua) : ua[i] \in {"iPad", "iPhone", "iPod"}

\* The device profiles of the cross-browser tester: the words of each user
\* agent that the regular expressions can see, and its deviceScaleFactor.
DeviceProfiles ==
  [d \in {"iPhone 15 Pro", "iPhone 12", "iPad Pro", "Samsung Galaxy S23",
          "Desktop Chrome", "Desktop Safari"} |->
     CASE d = "iPhone 15 Pro" ->
            [userAgent |-> <<"Mozilla", "iPhone", "Safari">>, deviceScaleFactor |-> 3]
       [] d = "iPhone 12" ->
            [userAgent |-> <<"Mozilla", "iPhone", "Safari">>, deviceScaleFactor |-> 3]
       [] d = "iPad Pro" ->
            [userAgent |-> <<"Mozilla", "iPad", "Safari">>, deviceScaleFactor |-> 2]
       [] d = "Samsung Galaxy S23" ->
            [userAgent |-> <<"Mozilla", "Android", "Chrome", "Safari">>, deviceScaleFactor |-> 3]
       [] d = "Desktop Chrome" ->
            [userAgent |-> <<"Mozilla", "Chrome", "Safari">>, deviceScaleFactor |-> 1]
       [] d = "Desktop Safari" ->
            [userAgent |-> <<"Mozilla", "Safari">>, deviceScaleFactor |-> 2]]

Min(a, b) == IF a <= b THEN a ELSE b

(***************************************************************************)
(* MobileOptimizer.                                                        *)
(***************************************************************************)
estimateMemoryLimit(isIOS, devicePixelRatio) ==
  IF isIOS
    THEN IF devicePixelRatio >= 3 THEN 512
         ELSE IF devicePixelRatio >= 2 THEN 256
         ELSE 128
    ELSE 1024

NoOptimizer ==
  [constructed |-> FALSE, isMobile |-> FALSE, isSafari |-> FALSE, isIOS |-> FALSE,
   devicePixelRatio |-> 0, memoryLimit |-> 0, currentMemoryUsage |-> 0,
   loadPriority |-> <<>>]

\* The object the constructor leaves behind for a user agent and a pixel ratio.
MobileOptimizer(ua, dpr) ==
  LET ios == TestIOSRegex(ua)
      ratio == IF dpr = 0 THEN 1 ELSE dpr      \* window.devicePixelRatio || 1
  IN [constructed |-> TRUE,
      isMobile |-> TestMobileRegex(ua),
      isSafari |-> TestSafariRegex(ua),
      isIOS |-> ios,
      devicePixelRatio |-> ratio,
      memoryLimit |-> estimateMemoryLimit(ios, ratio),
      currentMemoryUsage |-> 0,
      loadPriority |-> <<>>]                   \* undefined: the constructor sets none

getOptimizedRendererOptions(o) ==
  IF o.isMobile
    THEN [antialias |-> ~o.isMobile, alpha |-> FALSE, powerPreference |-> "high-performance",
          precision |-> "mediump", logarithmicDepthBuffer |-> FALSE,
          stencil |-> FALSE, depth |-> TRUE]
    ELSE [antialias |-> ~o.isMobile, alpha |-> FALSE, powerPreference |-> "high-performance"]

\* near is kept in tenths (0.1 -> 1, 1 -> 10).
getOptimizedCameraSettings(o) ==
  IF o.isMobile
    THEN [fov |-> 45, nearTenths |-> 1, far |-> 1000, z |-> 22]
    ELSE [fov |-> 60, nearTenths |-> 10, far |-> 2000, z |-> 28]

\* A star count that reads the live user agent instead of the stored flags.
getOptimizedStarCount_ReadsNavigator(o) ==
  IF TestMobileRegex(navUA) THEN (IF TestIOSRegex(navUA) THEN 150 ELSE 200) ELSE 400

getOptimizedStarCount(o) ==
  IF o.isMobile THEN (IF o.isIOS THEN 150 ELSE 200) ELSE 400

\* intensities are kept in tenths (0.3 -> 3, 8 -> 80).
getOptimizedLighting(o) ==
  IF o.isMobile
    THEN [sunLight |-> 40, ambientLight |-> 3, rimLight |-> 30, textLight |-> 30, textDistance |-> 25]
    ELSE [sunLight |-> 80, ambientLight |-> 4, rimLight |-> 60, textLight |-> 50, textDistance |-> 30]

\* Performance settings that cap the pixel ratio at 1 on every device.
getPerformanceSettings_CapOne(o) ==
  [pixelRatio |-> Min(o.devicePixelRatio, 1),
   shadowMapSize |-> IF o.isMobile THEN 512 ELSE 2048,
   maxLights |-> IF o.isMobile THEN 3 ELSE 8,
   enableShadows |-> ~o.isMobile,
   enablePostProcessing |-> FALSE,
   textureQuality |-> IF o.isMobile THEN "medium" ELSE "high"]

getPerformanceSettings(o) ==
  [pixelRatio |-> Min(o.devicePixelRatio, IF o.isMobile THEN 1 ELSE 2),
   shadowMapSize |-> IF o.isMobile THEN 512 ELSE 2048,
   maxLights |-> IF o.isMobile THEN 3 ELSE 8,
   enableShadows |-> ~o.isMobile,
   enablePostProcessing |-> FALSE,
   textureQuality |-> IF o.isMobile THEN "medium" ELSE "high"]

Getters == {"getPerformanceSettings", "getOptimizedStarCount", "getOptimizedCameraSettings",
            "getOptimizedRendererOptions", "getOptimizedLighting"}

\* What a call of getter g on optimizer o returns.
CallGetter(g, o) ==
  CASE g = "getPerformanceSettings"      -> getPerformanceSettings(o)
    [] g = "getOptimizedStarCount"       -> getOptimizedStarCount(o)
    [] g = "getOptimizedCameraSettings"  -> getOptimizedCameraSettings(o)
    [] g = "getOptimizedRendererOptions" -> getOptimizedRendererOptions(o)
    [] g = "getOptimizedLighting"        -> getOptimizedLighting(o)

\* The textures a page hands over (image sizes in px; canvas: a CanvasTexture)
\* and the maxSize arguments, 1024 being the default.
Textures == {[id |-> i, size |-> sz, canvas |-> FALSE] : i \in 1..2, sz \in {256, 2048}}

TextureMaxSizes == {256, 1024, 2048}

\* A texture optimisation that downscales on every device.
optimizeTextureForMobile_Always(o, texture, maxSize) ==
  [id |-> 0, size |-> Min(maxSize, 512), canvas |-> TRUE]

\* optimizeTextureForMobile(texture, maxSize): the texture itself on a
\* non-mobile device, else a new CanvasTexture (id 0) of a canvas of
\* Math.min(maxSize, 512) px.
optimizeTextureForMobile(o, texture, maxSize) ==
  IF ~o.isMobile THEN texture
  ELSE [id |-> 0, size |-> Min(maxSize, 512), canvas |-> TRUE]

\* The order of this.loadPriority: earth 1, text 2, stars 3, orbitalObjects 4.
LoadPriority == <<"earth", "text", "stars", "orbitalObjects">>

(***************************************************************************)
(* Actions on the optimizer.                                               *)
(***************************************************************************)
\* mobileOptimizer.optimizeTextureForMobile(texture, maxSize)
OptimizeTextureForMobile ==
  /\ opt.constructed
  /\ \E t \in Textures, m \in TextureMaxSizes :
       returned' = <<"optimizeTextureForMobile", optimizeTextureForMobile(opt, t, m), t>>
  /\ UNCHANGED <<pc, envVars, opt, canvases, fbVars, pageVars>>
  /\ UNCHANGED <<scriptVars, runnerVars, touchListeners, orbitalVars, crossSummary, runner>>

\* mobileOptimizer.enableProgressiveLoading()
EnableProgressiveLoading ==
  /\ opt.constructed
  /\ opt' = IF ~opt.isMobile THEN opt ELSE [opt EXCEPT !.loadPriority = LoadPriority]
  /\ returned' = <<"enableProgressiveLoading", "undefined">>
  /\ UNCHANGED <<pc, envVars, canvases, fbVars, pageVars>>
  /\ UNCHANGED <<scriptVars, runnerVars, touchListeners, orbitalVars, crossSummary, runner>>

\* mobileOptimizer.optimizeTouchGestures(): touchstart, touchmove and touchend
\* listeners on document, on every call.
OptimizeTouchGestures ==
  /\ opt.constructed
  /\ touchListeners < 3 * MaxGestureCalls
  /\ touchListeners' = IF ~opt.isMobile THEN touchListeners ELSE touchListeners + 3
  /\ returned' = <<"optimizeTouchGestures", "undefined">>
  /\ UNCHANGED <<pc, envVars, opt, canvases, fbVars, pageVars>>
  /\ UNCHANGED <<scriptVars, runnerVars, orbitalVars, crossSummary, runner>>

\* new MobileOptimizer(): the first statement of the guide's init().
NewMobileOptimizer ==
  /\ pc = "load"
  /\ opt' = MobileOptimizer(navUA, winDPR)
  /\ pc' = "optimizer"
  /\ UNCHANGED <<envVars, returned, canvases, fbVars, pageVars>>
  /\ UNCHANGED <<scriptVars, runnerVars, touchListeners, orbitalVars, crossSummary, runner>>

\* A call of one preset getter; none of them writes a field.
GetPreset ==
  /\ opt.constructed
  /\ \E g \in Getters : returned' = <<g, CallGetter(g, opt)>>
  /\ UNCHANGED <<pc, envVars, opt, canvases, fbVars, pageVars>>
  /\ UNCHANGED <<scriptVars, runnerVars, touchListeners, orbitalVars, crossSummary, runner>>

\* The environment changes under the constructed optimizer (emulation, zoom).
\* A user agent is rewritten one token at a time, so every user agent is
\* reachable from every other.
ChangeUserAgent ==
  /\ opt.constructed
  /\ \/ \E t \in UATokens : Len(navUA) < MaxUALen /\ navUA' = Append(navUA, t)
     \/ Len(navUA) > 0 /\ navUA' = SubSeq(navUA, 1, Len(navUA) - 1)
  /\ UNCHANGED <<pc, winDPR, gl, htmlCanvases, perfMemory, windowAnimate, optVars, canvases, fbVars, pageVars>>
  /\ UNCHANGED <<scriptVars, runnerVars, touchListeners, orbitalVars, crossSummary, runner>>

ChangeDevicePixelRatio ==
  /\ opt.constructed
  /\ \E d \in DevicePixelRatios : d # winDPR /\ winDPR' = d
  /\ UNCHANGED <<pc, navUA, gl, htmlCanvases, perfMemory, windowAnimate, optVars, canvases, fbVars, pageVars>>
  /\ UNCHANGED <<scriptVars, runnerVars, touchListeners, orbitalVars, crossSummary, runner>>

(***************************************************************************)
(* The WebGL capabilities a browser answers with.                          *)
(***************************************************************************)
Renderers == {<<"Apple", "GPU">>, <<"Mesa", "DRI", "Intel">>,
              <<"ANGLE", "Intel", "HD", "Graphics", "4000">>,
              <<"Intel", "HD", "Graphics", "5000">>}

Vendors == {<<"Apple", "Inc.">>, <<"Google", "Software", "Renderer">>}

TextureSizes == {512, 1024, 4096}

VertexAttribCounts == {4, 8}

\* context: getContext returned a context; debugInfo: the WEBGL_debug_renderer_info
\* extension exists (renderer and vendor are readable only through it);
\* paramThrows: gl.getParameter(gl.MAX_...) throws.
NoContext ==
  [context |-> FALSE, debugInfo |-> FALSE, renderer |-> <<>>, vendor |-> <<>>,
   paramThrows |-> FALSE, maxTextureSize |-> 0, maxVertexAttribs |-> 0]

GLEnvs ==
  {NoContext} \cup
  {[context |-> TRUE, debugInfo |-> d[1], renderer |-> d[2], vendor |-> d[3],
    paramThrows |-> q[1], maxTextureSize |-> q[2], maxVertexAttribs |-> q[3]] :
     d \in {<<FALSE, <<>>, <<>>>>} \cup ({TRUE} \X Renderers \X Vendors),
     q \in {<<TRUE, 0, 0>>} \cup ({FALSE} \X TextureSizes \X VertexAttribCounts)}

problematicDrivers ==
  {<<"Software", "Renderer">>, <<"Mesa">>,
   <<"Intel", "HD", "Graphics", "3000">>, <<"Intel", "HD", "Graphics", "4000">>}

\* String.prototype.includes: d occurs in s as a contiguous run.
Includes(s, d) ==
  \E i \in 1..(Len(s) - Len(d) + 1) : SubSeq(s, i, i + Len(d) - 1) = d

hasProblematicDriver(g) ==
  \E driver \in problematicDrivers : Includes(g.renderer, driver) \/ Includes(g.vendor, driver)

\* A detection that accepts any texture size.
detectWebGLSupport_NoTextureCheck(g) ==
  IF ~g.context THEN FALSE
  ELSE IF g.debugInfo /\ hasProblematicDriver(g) THEN FALSE
  ELSE IF g.paramThrows THEN FALSE
  ELSE IF g.maxVertexAttribs < 8 THEN FALSE
  ELSE TRUE

\* The return value of detectWebGLSupport(); FALSE is returned exactly on the
\* paths that call enableFallbackMode() first.
detectWebGLSupport(g) ==
  IF ~g.context THEN FALSE
  ELSE IF g.debugInfo /\ hasProblematicDriver(g) THEN FALSE
  ELSE IF g.paramThrows THEN FALSE
  ELSE IF g.maxTextureSize < 1024 \/ g.maxVertexAttribs < 8 THEN FALSE
  ELSE TRUE

(***************************************************************************)
(* WebGLFallback.                                                          *)
(***************************************************************************)
\* animationId 0 is null; animationTime counts frames of 0.016.  size is
\* canvas.width and canvas.height in units of the canvas's CSS box (which the
\* first resizeCanvas() pins in px), transform the scale of the 2D context
\* (0: no canvas), painted whether the bitmap holds a rendered frame.
NoFallback ==
  [constructed |-> FALSE, fallbackMode |-> FALSE, canvas |-> FALSE, scene |-> FALSE,
   animationId |-> 0, animationTime |-> 0, size |-> 0, transform |-> 0, painted |-> FALSE]

NoStats == [mounted |-> 0, loops |-> 0, banners |-> 0]

\* document.querySelector('canvas') is the first canvas of the document;
\* existingCanvas.remove() takes that one out.
RemoveFirstCanvas(doc) == IF doc = <<>> THEN doc ELSE Tail(doc)

\* initializeFallbackCanvas(): the document after it.
initializeFallbackCanvas(doc) == Append(RemoveFirstCanvas(doc), "fallback")

\* resizeCanvas() on fallback object f at device pixel ratio dpr: assigning
\* canvas.width and canvas.height clears the bitmap and resets the context, and
\* ctx.scale(dpr, dpr) then sets the transform.
resizeCanvas(f, dpr) ==
  IF ~f.canvas THEN f
  ELSE [f EXCEPT !.size = IF dpr = 0 THEN 1 ELSE dpr,
                 !.transform = IF dpr = 0 THEN 1 ELSE dpr,
                 !.painted = FALSE]

\* enableFallbackMode() on fallback object f: initializeFallbackCanvas,
\* createFallbackScene, startFallbackAnimation (whose first frame runs at once),
\* showFallbackNotification.
enableFallbackMode(f) ==
  /\ canvases' = initializeFallbackCanvas(canvases)
  /\ resizeListeners' = resizeListeners + 1
  /\ fb' = [resizeCanvas([f EXCEPT !.canvas = TRUE], winDPR)
               EXCEPT !.fallbackMode = TRUE, !.scene = TRUE,
                      !.animationTime = f.animationTime + 1,
                      !.painted = TRUE,
                      !.animationId = fbStats.loops + 1]
  /\ rafChains' = rafChains \cup {fbStats.loops + 1}
  /\ notifications' = notifications + 1
  /\ fbStats' = [mounted |-> fbStats.mounted + 1, loops |-> fbStats.loops + 1,
                 banners |-> fbStats.banners + 1]

\* new WebGLFallback(): the constructor ends with detectWebGLSupport().
NewWebGLFallback ==
  /\ pc = "optimizer"
  /\ pc' = "fallback"
  /\ IF detectWebGLSupport(gl)
       THEN /\ fb' = [NoFallback EXCEPT !.constructed = TRUE]
            /\ UNCHANGED <<canvases, rafChains, notifications, resizeListeners, fbStats>>
       ELSE enableFallbackMode([NoFallback EXCEPT !.constructed = TRUE])
  /\ UNCHANGED <<envVars, optVars, fbCalls, pageVars>>
  /\ UNCHANGED <<scriptVars, runnerVars, touchListeners, orbitalVars, crossSummary, runner>>

\* if (webglFallback.isFallbackMode()) return;
InitReturnsInFallbackMode ==
  /\ pc = "fallback"
  /\ fb.fallbackMode
  /\ pc' = "running"
  /\ UNCHANGED <<envVars, optVars, canvases, fbVars, pageVars>>
  /\ UNCHANGED <<scriptVars, runnerVars, touchListeners, orbitalVars, crossSummary, runner>>

\* renderer = new THREE.WebGLRenderer(rendererOptions): its canvas joins the
\* document and the animation loop is set.
CreateRenderer ==
  /\ pc = "fallback"
  /\ ~fb.fallbackMode
  /\ renderer' = [created |-> TRUE, animationLoop |-> TRUE,
                  pixelRatio |-> getPerformanceSettings(opt).pixelRatio,
                  antialias |-> getOptimizedRendererOptions(opt).antialias]
  /\ canvases' = Append(canvases, "3d")
  /\ pc' = "renderer"
  /\ UNCHANGED <<envVars, optVars, fbVars, protection, monitors, overlays, reloadTimers, lossEvents, lastCleanup>>
  /\ UNCHANGED <<scriptVars, runnerVars, touchListeners, orbitalVars, crossSummary, runner>>

\* mobileOptimizer.setupWebGLProtection(renderer)
setupWebGLProtection ==
  IF ~renderer.created \/ ~opt.isSafari
    THEN UNCHANGED <<protection, monitors>>
    ELSE /\ protection' = TRUE
         /\ monitors' = IF perfMemory THEN monitors + 1 ELSE monitors

SetupWebGLProtection ==
  /\ pc = "renderer"
  /\ setupWebGLProtection
  /\ pc' = "running"
  /\ UNCHANGED <<envVars, optVars, canvases, fbVars, renderer, overlays, reloadTimers, lossEvents, lastCleanup>>
  /\ UNCHANGED <<scriptVars, runnerVars, touchListeners, orbitalVars, crossSummary, runner>>

\* A context-loss handler without the fallbackMode test.
WebGLFallback_handleWebGLContextLoss_Unguarded == enableFallbackMode(fb)

\* webglFallback.handleWebGLContextLoss()
WebGLFallback_handleWebGLContextLoss ==
  IF ~fb.fallbackMode
    THEN enableFallbackMode(fb)
    ELSE UNCHANGED <<canvases, fb, rafChains, notifications, resizeListeners, fbStats>>

FallbackHandleContextLoss ==
  /\ pc = "running"
  /\ fbCalls < MaxFallbackCalls
  /\ fbCalls' = fbCalls + 1
  /\ WebGLFallback_handleWebGLContextLoss
  /\ UNCHANGED <<pc, envVars, optVars, pageVars>>
  /\ UNCHANGED <<scriptVars, runnerVars, touchListeners, orbitalVars, crossSummary, runner>>

\* A frame callback that scales the context once more.
FallbackFrame_Rescales ==
  /\ pc = "running"
  /\ \E c \in rafChains :
       /\ fb.animationTime < MaxFrames
       /\ fb' = [fb EXCEPT !.animationTime = fb.animationTime + 1, !.animationId = c,
                           !.painted = TRUE, !.transform = fb.transform + 1]
  /\ UNCHANGED <<pc, envVars, optVars, canvases, rafChains, notifications,
                 resizeListeners, fbStats, fbCalls, pageVars>>
  /\ UNCHANGED <<scriptVars, runnerVars, touchListeners, orbitalVars, crossSummary, runner>>

\* One requestAnimationFrame callback of the fallback loop: animate(), whose
\* renderFallbackScene() paints the canvas (this.ctx and this.canvas are set).
FallbackFrame ==
  /\ pc = "running"
  /\ \E c \in rafChains :
       /\ fb.animationTime < MaxFrames
       /\ fb' = [fb EXCEPT !.animationTime = fb.animationTime + 1, !.animationId = c,
                           !.painted = TRUE]
  /\ UNCHANGED <<pc, envVars, optVars, canvases, rafChains, notifications,
                 resizeListeners, fbStats, fbCalls, pageVars>>
  /\ UNCHANGED <<scriptVars, runnerVars, touchListeners, orbitalVars, crossSummary, runner>>

\* The window is resized or zoomed (which may change devicePixelRatio) and the
\* 'resize' listeners of initializeFallbackCanvas run: each calls resizeCanvas().
WindowResize ==
  /\ pc = "running"
  /\ resizeListeners > 0
  /\ \E d \in DevicePixelRatios :
       /\ winDPR' = d
       /\ fb' = resizeCanvas(fb, d)
  /\ UNCHANGED <<pc, navUA, gl, htmlCanvases, perfMemory, windowAnimate, optVars, canvases,
                 rafChains, notifications, resizeListeners, fbStats, fbCalls, pageVars>>
  /\ UNCHANGED <<scriptVars, runnerVars, touchListeners, orbitalVars, crossSummary, runner>>

\* A stop() that forgets the request id without cancelling the request.
FallbackStop_NoCancel ==
  /\ pc = "running"
  /\ fb.constructed
  /\ fb' = [fb EXCEPT !.animationId = 0]
  /\ UNCHANGED <<pc, envVars, optVars, canvases, rafChains, notifications, resizeListeners,
                 fbStats, fbCalls, pageVars>>
  /\ UNCHANGED <<scriptVars, runnerVars, touchListeners, orbitalVars, crossSummary, runner>>

\* webglFallback.stop()
FallbackStop ==
  /\ pc = "running"
  /\ fb.constructed
  /\ IF fb.animationId # 0
       THEN /\ rafChains' = rafChains \ {fb.animationId}
            /\ fb' = [fb EXCEPT !.animationId = 0]
       ELSE UNCHANGED <<rafChains, fb>>
  /\ UNCHANGED <<pc, envVars, optVars, canvases, notifications, resizeListeners,
                 fbStats, fbCalls, pageVars>>
  /\ UNCHANGED <<scriptVars, runnerVars, touchListeners, orbitalVars, crossSummary, runner>>

\* A notification timer whose callback leaves the banner in the document.
NotificationTimeout_KeepsBanner ==
  /\ pc = "running"
  /\ notifications > 0
  /\ UNCHANGED <<pc, envVars, optVars, canvases, fbVars, pageVars>>
  /\ UNCHANGED <<scriptVars, runnerVars, touchListeners, orbitalVars, crossSummary, runner>>

\* The 5000 ms timer of showFallbackNotification fires.
NotificationTimeout ==
  /\ pc = "running"
  /\ notifications > 0
  /\ notifications' = notifications - 1
  /\ UNCHANGED <<pc, envVars, optVars, canvases, fb, rafChains, resizeListeners,
                 fbStats, fbCalls, pageVars>>
  /\ UNCHANGED <<scriptVars, runnerVars, touchListeners, orbitalVars, crossSummary, runner>>

(***************************************************************************)
(* The optimizer's context-loss protection and memory monitor.             *)
(***************************************************************************)
\* showFallbackMessage(message): one more overlay, with its 5000 ms removal timer.
showFallbackMessage == overlays' = overlays + 1

\* A handler that schedules no second reload while one is pending.
MobileOptimizer_handleWebGLContextLoss_OneReload ==
  /\ renderer' = [renderer EXCEPT !.animationLoop = FALSE]
  /\ showFallbackMessage
  /\ reloadTimers' = IF reloadTimers = 0 THEN 1 ELSE reloadTimers

\* MobileOptimizer.handleWebGLContextLoss(renderer)
MobileOptimizer_handleWebGLContextLoss ==
  /\ renderer' = [renderer EXCEPT !.animationLoop = FALSE]
  /\ showFallbackMessage
  /\ reloadTimers' = reloadTimers + 1

\* MobileOptimizer.handleWebGLContextRestore(renderer)
MobileOptimizer_handleWebGLContextRestore ==
  renderer' = IF windowAnimate THEN [renderer EXCEPT !.animationLoop = TRUE] ELSE renderer

\* The browser fires webglcontextlost on the renderer's canvas; the listener of
\* setupWebGLProtection, when registered, runs.
WebGLContextLost ==
  /\ pc = "running"
  /\ renderer.created
  /\ lossEvents < MaxLossEvents
  /\ lossEvents' = lossEvents + 1
  /\ IF protection
       THEN MobileOptimizer_handleWebGLContextLoss
       ELSE UNCHANGED <<renderer, overlays, reloadTimers>>
  /\ UNCHANGED <<pc, envVars, optVars, canvases, fbVars, protection, monitors, lastCleanup>>
  /\ UNCHANGED <<scriptVars, runnerVars, touchListeners, orbitalVars, crossSummary, runner>>

\* The browser fires webglcontextrestored after a loss.
WebGLContextRestored ==
  /\ pc = "running"
  /\ renderer.created
  /\ lossEvents > 0
  /\ IF protection
       THEN MobileOptimizer_handleWebGLContextRestore
       ELSE UNCHANGED renderer
  /\ UNCHANGED <<pc, envVars, optVars, canvases, fbVars, protection, monitors,
                 overlays, reloadTimers, lossEvents, lastCleanup>>
  /\ UNCHANGED <<scriptVars, runnerVars, touchListeners, orbitalVars, crossSummary, runner>>

\* The 5000 ms timer of showFallbackMessage removes its overlay.
OverlayTimeout ==
  /\ pc = "running"
  /\ overlays > 0
  /\ overlays' = overlays - 1
  /\ UNCHANGED <<pc, envVars, optVars, canvases, fbVars, renderer, protection, monitors,
                 reloadTimers, lossEvents, lastCleanup>>
  /\ UNCHANGED <<scriptVars, runnerVars, touchListeners, orbitalVars, crossSummary, runner>>

\* Heap readings of window.performance.memory, in MB.
MemoryReadings ==
  {[usedMB |-> u, limitMB |-> 100] : u \in {50, 80, 81, 95, 96}}
  \cup {[usedMB |-> u, limitMB |-> 200] : u \in {160, 161, 190, 191}}

\* window.orbitalObjects is undefined.  list holds the objects of the array
\* (by identity), attached those that have a parent, disposed those whose
\* geometry and material were disposed.
NoOrbitals == [defined |-> FALSE, list |-> <<>>, attached |-> {}, disposed |-> {}]

\* The arrays a page can hold: up to MaxOrbitals distinct objects, any of them
\* in the scene.
PageOrbitals ==
  {NoOrbitals}
  \cup UNION {{[defined |-> TRUE, list |-> [i \in 1..n |-> i], attached |-> a, disposed |-> {}] :
                 a \in SUBSET (1..n)} : n \in 0..MaxOrbitals}

\* An emergency cleanup that keeps three objects.
emergencyMemoryCleanup_KeepsThree(o) ==
  IF ~o.defined THEN o
  ELSE LET dropped == {o.list[i] : i \in 4..Len(o.list)}
       IN [o EXCEPT !.list = SubSeq(o.list, 1, Min(3, Len(o.list))),
                    !.attached = o.attached \ dropped,
                    !.disposed = o.disposed \cup (dropped \cap o.attached)]

\* emergencyMemoryCleanup() on window.orbitalObjects o: every object of
\* slice(2) that has a parent is removed from it and disposed, and the array
\* becomes slice(0, 2).
emergencyMemoryCleanup(o) ==
  IF ~o.defined THEN o
  ELSE LET dropped == {o.list[i] : i \in 3..Len(o.list)}
       IN [o EXCEPT !.list = SubSeq(o.list, 1, Min(2, Len(o.list))),
                    !.attached = o.attached \ dropped,
                    !.disposed = o.disposed \cup (dropped \cap o.attached)]

\* Thresholds that include 80% and 95% themselves.
TickCleanups_Inclusive(m) ==
  (IF m.usedMB * 100 >= 80 * m.limitMB THEN <<"triggerMemoryCleanup">> ELSE <<>>)
  \o (IF m.usedMB * 100 >= 95 * m.limitMB
        THEN <<"emergencyMemoryCleanup", "triggerMemoryCleanup">> ELSE <<>>)

\* The cleanups one tick calls for reading m, in call order;
\* emergencyMemoryCleanup ends with a call of triggerMemoryCleanup.
TickCleanups(m) ==
  (IF m.usedMB * 100 > 80 * m.limitMB THEN <<"triggerMemoryCleanup">> ELSE <<>>)
  \o (IF m.usedMB * 100 > 95 * m.limitMB
        THEN <<"emergencyMemoryCleanup", "triggerMemoryCleanup">> ELSE <<>>)

\* One tick of the setInterval of startMemoryMonitoring.
MemoryMonitorTick ==
  /\ pc = "running"
  /\ monitors > 0
  /\ perfMemory
  /\ \E m \in MemoryReadings :
       /\ opt' = [opt EXCEPT !.currentMemoryUsage = m.usedMB]
       /\ lastCleanup' = TickCleanups(m)
       /\ orbitals' = IF m.usedMB * 100 > 95 * m.limitMB
                        THEN emergencyMemoryCleanup(orbitals) ELSE orbitals
  /\ UNCHANGED <<pc, envVars, returned, canvases, fbVars, renderer, protection, monitors,
                 overlays, reloadTimers, lossEvents>>
  /\ UNCHANGED <<scriptVars, runnerVars, touchListeners, pageOrbitals, crossSummary, runner>>

NoRenderer == [created |-> FALSE, animationLoop |-> FALSE, pixelRatio |-> 0, antialias |-> FALSE]

\* The two report files the runner looks for.
ReportNames == {"safari-diagnostics-report.json", "cross-browser-report.json"}

\* A report file that does not exist.  valid: JSON.parse accepts the text;
\* hasSummary: the report has a summary field, whose totalTests and
\* successfulTests follow; recommendations: the length of that array;
\* metrics: the number of entries of the performanceMetrics field, of which
\* metricsOk have success true.
NoFile ==
  [exists |-> FALSE, valid |-> FALSE, hasSummary |-> FALSE, totalTests |-> 0,
   successfulTests |-> 0, recommendations |-> 0, metrics |-> 0, metricsOk |-> 0]

NoSummary ==
  [ran |-> FALSE, read |-> {}, totalTests |-> 0, passedTests |-> 0, verdict |-> "none"]

\* The runner has not looked at an (empty) working directory.
\* No MobileDeviceTester runs.  server is what fetch('http://localhost:3000')
\* meets: "up" (response.ok), "error" (a response that is not ok) or "down"
\* (fetch rejects); child tells whether execSync is waiting for a command.
IdleRunner == [pc |-> "idle", child |-> FALSE, steps |-> <<>>, exit |-> -1, server |-> "up"]

NoRunner ==
  /\ workdir = [f \in ReportNames |-> NoFile]
  /\ summary = NoSummary
  /\ runner = IdleRunner

\* generateCrossBrowserReport has computed no summary.
NoCrossSummary == [totalTests |-> 0, successfulTests |-> 0]

\* No automation script runs.
NoScript ==
  /\ script = "none"
  /\ reachable = FALSE
  /\ spc = "idle"
  /\ profile = 0
  /\ browsers = 0
  /\ listening = FALSE
  /\ navDelay = 0
  /\ navSeconds = 0
  /\ gotos = 0
  /\ pending = ""
  /\ thrown = <<>>
  /\ errors = <<>>
  /\ results = <<>>
  /\ crashPoints = 0
  /\ printed = {}
  /\ files = {}
  /\ exitStatus = -1
  /\ navFailed = FALSE
  /\ ranAfterFailure = FALSE
  /\ crossSummary = NoCrossSummary

\* The state of a page whose scripts have not run yet.
PageLoaded ==
  /\ pc = "load"
  /\ opt = NoOptimizer
  /\ returned = <<>>
  /\ canvases = htmlCanvases
  /\ fb = NoFallback
  /\ rafChains = {}
  /\ notifications = 0
  /\ resizeListeners = 0
  /\ fbStats = NoStats
  /\ fbCalls = 0
  /\ renderer = NoRenderer
  /\ protection = FALSE
  /\ monitors = 0
  /\ overlays = 0
  /\ reloadTimers = 0
  /\ lossEvents = 0
  /\ lastCleanup = <<>>
  /\ touchListeners = 0
  /\ orbitals = pageOrbitals

HtmlDocuments == SeqsUpTo({"3d", "2d"}, MaxHtmlCanvases)

(***************************************************************************)
(* The preset selector alone, over every user agent and pixel ratio.       *)
(***************************************************************************)
PresetInit ==
  /\ navUA \in UserAgents
  /\ winDPR \in DevicePixelRatios
  /\ gl = NoContext
  /\ htmlCanvases = <<>>
  /\ perfMemory = FALSE
  /\ windowAnimate = FALSE
  /\ pageOrbitals = NoOrbitals
  /\ PageLoaded
  /\ NoScript
  /\ NoRunner

PresetNext ==
  \/ NewMobileOptimizer
  \/ GetPreset
  \/ ChangeUserAgent
  \/ ChangeDevicePixelRatio

PresetSpec == PresetInit /\ [][PresetNext]_vars

(***************************************************************************)
(* The mobile-only operations, on an optimizer constructed for any user    *)
(* agent and pixel ratio.                                                  *)
(***************************************************************************)
MobileOpsNext ==
  \/ NewMobileOptimizer
  \/ OptimizeTextureForMobile
  \/ EnableProgressiveLoading
  \/ OptimizeTouchGestures

MobileOpsSpec == PresetInit /\ [][MobileOpsNext]_vars

(***************************************************************************)
(* The fallback on a desktop browser that is not Safari, over every WebGL  *)
(* answer and every static document.                                       *)
(***************************************************************************)
FallbackInit ==
  /\ navUA = DeviceProfiles["Desktop Chrome"].userAgent
  /\ winDPR = DeviceProfiles["Desktop Chrome"].deviceScaleFactor
  /\ gl \in GLEnvs
  /\ htmlCanvases \in HtmlDocuments
  /\ perfMemory = TRUE
  /\ windowAnimate = TRUE
  /\ pageOrbitals = NoOrbitals
  /\ PageLoaded
  /\ NoScript
  /\ NoRunner

FallbackNext ==
  \/ NewMobileOptimizer
  \/ NewWebGLFallback
  \/ InitReturnsInFallbackMode
  \/ CreateRenderer
  \/ SetupWebGLProtection
  \/ FallbackHandleContextLoss
  \/ FallbackFrame
  \/ FallbackStop
  \/ NotificationTimeout
  \/ WindowResize

FallbackSpec == FallbackInit /\ [][FallbackNext]_vars

(***************************************************************************)
(* The page of the integration guide on the device profiles the test       *)
(* scripts emulate.                                                        *)
(***************************************************************************)
PageGLEnvs ==
  {g \in GLEnvs : \/ ~g.context
                  \/ /\ ~g.debugInfo
                     /\ ~g.paramThrows
                     /\ g.maxTextureSize = 4096
                     /\ g.maxVertexAttribs = 8}

\* DevTools or puppeteer emulation switches the page to another device profile.
EmulateDevice ==
  /\ opt.constructed
  /\ \E d \in DOMAIN DeviceProfiles :
       /\ DeviceProfiles[d].userAgent # navUA
       /\ navUA' = DeviceProfiles[d].userAgent
       /\ winDPR' = DeviceProfiles[d].deviceScaleFactor
  /\ UNCHANGED <<pc, gl, htmlCanvases, perfMemory, windowAnimate, optVars, canvases,
                 fbVars, pageVars>>
  /\ UNCHANGED <<scriptVars, runnerVars, touchListeners, orbitalVars, crossSummary, runner>>

\* A reload timer fires: window.location.reload() loads the page afresh in the
\* same browser.
ReloadTimeout ==
  /\ pc = "running"
  /\ reloadTimers > 0
  /\ pc' = "load"
  /\ opt' = NoOptimizer
  /\ returned' = <<>>
  /\ canvases' = htmlCanvases
  /\ fb' = NoFallback
  /\ rafChains' = {}
  /\ notifications' = 0
  /\ resizeListeners' = 0
  /\ fbStats' = NoStats
  /\ fbCalls' = 0
  /\ renderer' = NoRenderer
  /\ protection' = FALSE
  /\ monitors' = 0
  /\ overlays' = 0
  /\ reloadTimers' = 0
  /\ lossEvents' = 0
  /\ lastCleanup' = <<>>
  /\ touchListeners' = 0
  /\ orbitals' = pageOrbitals
  /\ UNCHANGED <<envVars, pageOrbitals>>
  /\ UNCHANGED <<scriptVars, runnerVars, crossSummary, runner>>

Init ==
  /\ \E d \in DOMAIN DeviceProfiles :
       /\ navUA = DeviceProfiles[d].userAgent
       /\ winDPR = DeviceProfiles[d].deviceScaleFactor
  /\ gl \in PageGLEnvs
  /\ htmlCanvases \in {<<>>, <<"2d">>}
  /\ perfMemory \in BOOLEAN
  /\ windowAnimate \in BOOLEAN
  /\ pageOrbitals = NoOrbitals
  /\ PageLoaded
  /\ NoScript
  /\ NoRunner

Next ==
  \/ NewMobileOptimizer
  \/ NewWebGLFallback
  \/ InitReturnsInFallbackMode
  \/ CreateRenderer
  \/ SetupWebGLProtection
  \/ WebGLContextLost
  \/ WebGLContextRestored
  \/ OverlayTimeout
  \/ ReloadTimeout
  \/ MemoryMonitorTick
  \/ FallbackHandleContextLoss
  \/ FallbackFrame
  \/ FallbackStop
  \/ NotificationTimeout

Spec == Init /\ [][Next]_vars

\* The statements of init(), which run to its end once the page has loaded.
InitStep ==
  \/ NewMobileOptimizer
  \/ NewWebGLFallback
  \/ InitReturnsInFallbackMode
  \/ CreateRenderer
  \/ SetupWebGLProtection

\* The browser runs the page's script to its end and fires a timer that is
\* due; when the context is lost is up to the device.
FairSpec == Spec /\ WF_vars(InitStep) /\ WF_vars(ReloadTimeout)

\* The fallback's page under the same scheduling: init() runs to its end and
\* a notification timer that is due fires.
FairFallbackSpec == FallbackSpec /\ WF_vars(InitStep) /\ WF_vars(NotificationTimeout)

(***************************************************************************)
(* The memory monitor on a page that keeps its orbital objects in          *)
(* window.orbitalObjects and exposes performance.memory.                   *)
(***************************************************************************)
MemoryInit ==
  /\ \E d \in DOMAIN DeviceProfiles :
       /\ navUA = DeviceProfiles[d].userAgent
       /\ winDPR = DeviceProfiles[d].deviceScaleFactor
  /\ gl \in {g \in PageGLEnvs : g.context}
  /\ htmlCanvases = <<>>
  /\ perfMemory = TRUE
  /\ windowAnimate = FALSE
  /\ pageOrbitals \in PageOrbitals
  /\ PageLoaded
  /\ NoScript
  /\ NoRunner

MemoryNext ==
  \/ NewMobileOptimizer
  \/ NewWebGLFallback
  \/ CreateRenderer
  \/ SetupWebGLProtection
  \/ MemoryMonitorTick

MemorySpec == MemoryInit /\ [][MemoryNext]_vars

(***************************************************************************)
(* The life of one MobileOptimizer on the guide's page: WebGL works, so    *)
(* init() runs to its end; the page then calls getters while context       *)
(* events, monitor ticks and timers fire and the emulated device changes.  *)
(***************************************************************************)
OptimizerInit ==
  /\ \E d \in DOMAIN DeviceProfiles :
       /\ navUA = DeviceProfiles[d].userAgent
       /\ winDPR = DeviceProfiles[d].deviceScaleFactor
  /\ gl \in {g \in PageGLEnvs : g.context}
  /\ htmlCanvases = <<>>
  /\ perfMemory \in BOOLEAN
  /\ windowAnimate \in BOOLEAN
  /\ pageOrbitals = NoOrbitals
  /\ PageLoaded
  /\ NoScript
  /\ NoRunner

OptimizerNext ==
  \/ NewMobileOptimizer
  \/ NewWebGLFallback
  \/ CreateRenderer
  \/ SetupWebGLProtection
  \/ GetPreset
  \/ EmulateDevice
  \/ WebGLContextLost
  \/ WebGLContextRestored
  \/ OverlayTimeout
  \/ ReloadTimeout
  \/ MemoryMonitorTick

OptimizerSpec == OptimizerInit /\ [][OptimizerNext]_vars

(***************************************************************************)
(* The automation scripts.  One process runs one script against one URL.   *)
(***************************************************************************)
SingleScripts == {"check", "check-detailed", "check-site", "screenshot-test", "test-prod"}

MultiScripts == {"test-cross-browser", "test-mobile-safari"}

Scripts == SingleScripts \cup MultiScripts

\* The device profiles (configurations) a multi-profile script tests in turn.
ProfileCount(s) ==
  CASE s = "test-cross-browser" -> Cardinality(DOMAIN DeviceProfiles)
    [] s = "test-mobile-safari" -> 4
    [] OTHER                    -> 0

\* A navigation-timeout option of 0 that switches the timeout off.
NavTimeout_Disabled(s) == 0

\* The timeout option of the script's page.goto, in seconds.
NavTimeout(s) ==
  CASE s \in {"check", "check-detailed", "test-prod"}        -> 15
    [] s \in {"check-site", "screenshot-test"}               -> 20
    [] s \in {"test-cross-browser", "test-mobile-safari"}    -> 30

\* Seconds a navigation needs to settle by itself; -1: it never does.
NavDelays == {1, 20, -1}

\* The uncaught errors a page can throw: the message, and the stack (empty
\* when the thrown value carries none).  kind tells a synchronous script
\* error from the reason of an unhandled promise rejection.
Messages == {<<"boom">>, <<"x", "is", "not", "defined">>}

StackOf(m) == <<"Error:">> \o m \o <<"at", "index.html:1:1">>

PageErrorValues ==
  UNION {{[kind |-> "error", message |-> m, stack |-> st] : st \in {<<>>, StackOf(m)}} :
           m \in Messages}
  \cup {[kind |-> "unhandledrejection", message |-> <<"boom">>, stack |-> StackOf(<<"boom">>)]}

\* A listener that stores the stack whenever there is one.
pageerrorListener_StoresStack(s, e) ==
  IF e.stack # <<>> THEN e.stack ELSE e.message

\* What the script's error listener pushes for error e: check-detailed pushes
\* error.stack || error.message, the multi-profile scripts' in-page listeners
\* an entry whose message field is e.message, the others error.message.
\* The driver reports an unhandled rejection as a pageerror too; in the page
\* it goes to the 'unhandledrejection' listener, whose entry holds the type
\* and reason.toString() and no message (<<>>: undefined).
pageerrorListener(s, e) ==
  CASE s = "check-detailed" -> (IF e.stack # <<>> THEN e.stack ELSE e.message)
    [] s \in MultiScripts   ->
         IF e.kind = "error"
           THEN [type |-> "", message |-> e.message, reason |-> <<>>]
           ELSE [type |-> "unhandledrejection", message |-> <<>>,
                 reason |-> <<"Error:">> \o e.message]
    [] OTHER                -> e.message

\* screenshot-test registers no listener.
HasErrorListener(s) == s # "screenshot-test"

\* puppeteer.launch() and browser.newPage(); in a multi-profile script this
\* begins the next profile.
LaunchBrowser ==
  /\ spc = "start"
  /\ browsers' = browsers + 1
  /\ profile' = IF script \in MultiScripts THEN profile + 1 ELSE profile
  /\ ranAfterFailure' = (ranAfterFailure \/ navFailed)
  /\ spc' = "page"
  /\ UNCHANGED <<script, reachable, listening, navDelay, navSeconds, pending, thrown, errors,
                 results, crashPoints, printed, files, exitStatus, navFailed>>
  /\ gotos' = 0
  /\ UNCHANGED <<pageAll, runnerVars, touchListeners, orbitalVars, crossSummary, runner>>

\* page.on(...) / page.evaluateOnNewDocument(...): everything between newPage
\* and goto.
InstallListeners ==
  /\ spc = "page"
  /\ listening' = HasErrorListener(script)
  /\ spc' = "ready"
  /\ UNCHANGED <<script, reachable, profile, browsers, navDelay, navSeconds, pending, thrown,
                 errors, results, crashPoints, printed, files, exitStatus, navFailed,
                 ranAfterFailure>>
  /\ UNCHANGED gotos
  /\ UNCHANGED <<pageAll, runnerVars, touchListeners, orbitalVars, crossSummary, runner>>

\* page.goto(url, {waitUntil: 'networkidle0', timeout}) is called.
StartNavigation ==
  /\ spc = "ready"
  /\ navDelay' \in NavDelays
  /\ spc' = "navigating"
  /\ UNCHANGED <<script, reachable, profile, browsers, listening, navSeconds, pending, thrown,
                 errors, results, crashPoints, printed, files, exitStatus, navFailed,
                 ranAfterFailure>>
  /\ gotos' = gotos + 1
  /\ UNCHANGED <<pageAll, runnerVars, touchListeners, orbitalVars, crossSummary, runner>>

\* The promise of page.goto settles: it rejects at the timeout (when there is
\* one) if the navigation has not settled by then, rejects when the URL does
\* not answer, and resolves otherwise.
NavigationSettles ==
  /\ spc = "navigating"
  /\ LET T == NavTimeout(script)
         timedOut == T > 0 /\ (navDelay < 0 \/ navDelay >= T)
         failed == timedOut \/ ~reachable
     IN /\ timedOut \/ navDelay >= 0
        /\ navSeconds' = IF timedOut THEN T ELSE navDelay
        /\ pending' = IF timedOut THEN "Navigation timeout"
                      ELSE IF ~reachable THEN "net::ERR_CONNECTION_REFUSED"
                      ELSE pending
        /\ navFailed' = (navFailed \/ failed)
        /\ spc' = IF failed
                    THEN (IF script \in MultiScripts THEN "caught" ELSE "rejected")
                    ELSE (IF script \in MultiScripts THEN "waiting" ELSE "loaded")
  /\ UNCHANGED <<script, reachable, profile, browsers, listening, navDelay, thrown, errors,
                 results, crashPoints, printed, files, exitStatus, ranAfterFailure>>
  /\ UNCHANGED gotos
  /\ UNCHANGED <<pageAll, runnerVars, touchListeners, orbitalVars, crossSummary, runner>>

\* A page error that ends the script like a failed navigation.
PageError_FailsScript ==
  /\ spc \in {"navigating", "loaded", "waiting", "initialized"}
  /\ reachable
  /\ Len(thrown) < MaxPageErrors
  /\ \E e \in PageErrorValues :
       /\ thrown' = Append(thrown, e)
       /\ errors' = errors
       /\ pending' = "page error"
  /\ spc' = IF script \in MultiScripts THEN "caught" ELSE "rejected"
  /\ UNCHANGED <<script, reachable, profile, browsers, listening, navDelay, navSeconds,
                 results, crashPoints, printed, files, exitStatus, navFailed,
                 ranAfterFailure>>
  /\ UNCHANGED gotos
  /\ UNCHANGED <<pageAll, runnerVars, touchListeners, orbitalVars, crossSummary, runner>>

\* The page throws an uncaught error, or leaves a promise rejection
\* unhandled, while it loads or runs.
PageError ==
  /\ spc \in {"navigating", "loaded", "waiting", "initialized"}
  /\ reachable
  /\ Len(thrown) < MaxPageErrors
  /\ \E e \in PageErrorValues :
       /\ thrown' = Append(thrown, e)
       /\ errors' = IF listening THEN Append(errors, pageerrorListener(script, e)) ELSE errors
  /\ UNCHANGED <<script, reachable, spc, profile, browsers, listening, navDelay, navSeconds,
                 pending, results, crashPoints, printed, files, exitStatus, navFailed,
                 ranAfterFailure>>
  /\ UNCHANGED gotos
  /\ UNCHANGED <<pageAll, runnerVars, touchListeners, orbitalVars, crossSummary, runner>>

\* The page of the Safari script crashes on the site's content while the
\* script waits for it: the page.on('error') listener records a crash point,
\* and the pending goto or waitForFunction rejects.
PageCrash ==
  /\ script = "test-mobile-safari"
  /\ spc \in {"navigating", "waiting"}
  /\ reachable
  /\ listening
  /\ crashPoints' = crashPoints + 1
  /\ printed' = printed \cup {<<"Crash", "Page crashed!">>}
  /\ pending' = "Page crashed!"
  /\ navFailed' = TRUE
  /\ spc' = "caught"
  /\ UNCHANGED <<script, reachable, profile, browsers, listening, navDelay, navSeconds, thrown,
                 errors, results, files, exitStatus, ranAfterFailure>>
  /\ UNCHANGED gotos
  /\ UNCHANGED <<pageAll, runnerVars, touchListeners, orbitalVars, crossSummary, runner>>

\* page.waitForFunction(() => window.scene && window.renderer && window.camera,
\* {timeout: 15000}) settles.
ReadinessSettles ==
  /\ spc = "waiting"
  /\ \E ready \in BOOLEAN :
       IF ready
         THEN /\ spc' = "initialized"
              /\ UNCHANGED <<pending, navFailed>>
         ELSE /\ spc' = "caught"
              /\ pending' = "Waiting failed"
              /\ navFailed' = TRUE
  /\ UNCHANGED <<script, reachable, profile, browsers, listening, navDelay, navSeconds, thrown,
                 errors, results, crashPoints, printed, files, exitStatus, ranAfterFailure>>
  /\ UNCHANGED gotos
  /\ UNCHANGED <<pageAll, runnerVars, touchListeners, orbitalVars, crossSummary, runner>>

\* The measurements of one profile, taken to completion, and its result record.
RunTests ==
  /\ spc = "initialized"
  /\ results' = Append(results, [profile |-> profile, success |-> TRUE, error |-> ""])
  /\ printed' = printed \cup {<<"Results", "">>}
  /\ ranAfterFailure' = (ranAfterFailure \/ navFailed)
  /\ spc' = "closing"
  /\ UNCHANGED <<script, reachable, profile, browsers, listening, navDelay, navSeconds, pending,
                 thrown, errors, crashPoints, files, exitStatus, navFailed>>
  /\ UNCHANGED gotos
  /\ UNCHANGED <<pageAll, runnerVars, touchListeners, orbitalVars, crossSummary, runner>>

\* A catch block that passes the exception on.
CatchFailure_Rethrows ==
  /\ spc = "caught"
  /\ spc' = "rejected"
  /\ UNCHANGED <<script, reachable, profile, browsers, listening, navDelay, navSeconds, pending,
                 thrown, errors, results, crashPoints, printed, files, exitStatus, navFailed,
                 ranAfterFailure>>
  /\ UNCHANGED gotos
  /\ UNCHANGED <<pageAll, runnerVars, touchListeners, orbitalVars, crossSummary, runner>>

\* A catch block that navigates once more in the same session.
CatchFailure_Retries ==
  /\ spc = "caught"
  /\ spc' = "ready"
  /\ UNCHANGED <<script, reachable, profile, browsers, listening, navDelay, navSeconds, gotos,
                 pending, thrown, errors, results, crashPoints, printed, files, exitStatus,
                 navFailed, ranAfterFailure>>
  /\ UNCHANGED <<pageAll, runnerVars, touchListeners, orbitalVars, crossSummary, runner>>

\* A catch block that prints the failure and records nothing.
CatchFailure_NoRecord ==
  /\ spc = "caught"
  /\ printed' = printed \cup {<<"Failed", pending>>}
  /\ pending' = ""
  /\ spc' = "closing"
  /\ UNCHANGED <<script, reachable, profile, browsers, listening, navDelay, navSeconds, thrown,
                 errors, results, crashPoints, files, exitStatus, navFailed, ranAfterFailure>>
  /\ UNCHANGED gotos
  /\ UNCHANGED <<pageAll, runnerVars, touchListeners, orbitalVars, crossSummary, runner>>

\* catch (error) of testDeviceProfile / testSafariConfig: print, record the
\* failed result (and, in the Safari script, a crash point).
CatchFailure ==
  /\ spc = "caught"
  /\ printed' = printed \cup {<<"Failed", pending>>}
  /\ results' = Append(results, [profile |-> profile, success |-> FALSE, error |-> pending])
  /\ crashPoints' = IF script = "test-mobile-safari" THEN crashPoints + 1 ELSE crashPoints
  /\ pending' = ""
  /\ spc' = "closing"
  /\ UNCHANGED <<script, reachable, profile, browsers, listening, navDelay, navSeconds, thrown,
                 errors, files, exitStatus, navFailed, ranAfterFailure>>
  /\ UNCHANGED gotos
  /\ UNCHANGED <<pageAll, runnerVars, touchListeners, orbitalVars, crossSummary, runner>>

\* The sleep is over: a single-session script prints what it collected.
PrintCollected ==
  /\ spc = "loaded"
  /\ printed' = printed \cup {<<"Errors", "">>}
  /\ spc' = "reported"
  /\ UNCHANGED <<script, reachable, profile, browsers, listening, navDelay, navSeconds, pending,
                 thrown, errors, results, crashPoints, files, exitStatus, navFailed,
                 ranAfterFailure>>
  /\ UNCHANGED gotos
  /\ UNCHANGED <<pageAll, runnerVars, touchListeners, orbitalVars, crossSummary, runner>>

\* A close that leaves the browser process running.
CloseBrowser_Leaks ==
  /\ spc \in {"reported", "closing"}
  /\ browsers' = browsers
  /\ listening' = FALSE
  /\ IF script \in MultiScripts
       THEN /\ spc' = IF profile < ProfileCount(script) THEN "start" ELSE "profilesDone"
            /\ thrown' = <<>>
            /\ errors' = <<>>
            /\ UNCHANGED exitStatus
       ELSE /\ spc' = "exited"
            /\ exitStatus' = 0
            /\ UNCHANGED <<thrown, errors>>
  /\ UNCHANGED <<script, reachable, profile, navDelay, navSeconds, pending, results,
                 crashPoints, printed, files, navFailed, ranAfterFailure>>
  /\ UNCHANGED gotos
  /\ UNCHANGED <<pageAll, runnerVars, touchListeners, orbitalVars, crossSummary, runner>>

\* browser.close(): the last statement of a single-session script, the finally
\* block of a profile test.
CloseBrowser ==
  /\ spc \in {"reported", "closing"}
  /\ browsers' = browsers - 1
  /\ listening' = FALSE
  /\ IF script \in MultiScripts
       THEN /\ spc' = IF profile < ProfileCount(script) THEN "start" ELSE "profilesDone"
            /\ thrown' = <<>>
            /\ errors' = <<>>
            /\ UNCHANGED exitStatus
       ELSE /\ spc' = "exited"
            /\ exitStatus' = 0
            /\ UNCHANGED <<thrown, errors>>
  /\ UNCHANGED <<script, reachable, profile, navDelay, navSeconds, pending, results,
                 crashPoints, printed, files, navFailed, ranAfterFailure>>
  /\ UNCHANGED gotos
  /\ UNCHANGED <<pageAll, runnerVars, touchListeners, orbitalVars, crossSummary, runner>>

\* testWebGLCapabilities(): its own browser, one evaluate, the entry
\* testResults.webglCapabilities (profile 0; it has no success field, which
\* reads as false), and the close in its finally block.
LaunchProbe ==
  /\ spc = "profilesDone"
  /\ script = "test-cross-browser"
  /\ browsers' = browsers + 1
  /\ ranAfterFailure' = (ranAfterFailure \/ navFailed)
  /\ spc' = "probe"
  /\ UNCHANGED <<script, reachable, profile, listening, navDelay, navSeconds, pending, thrown,
                 errors, results, crashPoints, printed, files, exitStatus, navFailed>>
  /\ gotos' = 0
  /\ UNCHANGED <<pageAll, runnerVars, touchListeners, orbitalVars, crossSummary, runner>>

CloseProbe ==
  /\ spc = "probe"
  /\ results' = Append(results, [profile |-> 0, success |-> FALSE, error |-> ""])
  /\ browsers' = browsers - 1
  /\ spc' = "report"
  /\ UNCHANGED <<script, reachable, profile, listening, navDelay, navSeconds, pending, thrown,
                 errors, crashPoints, printed, files, exitStatus, navFailed, ranAfterFailure>>
  /\ UNCHANGED gotos
  /\ UNCHANGED <<pageAll, runnerVars, touchListeners, orbitalVars, crossSummary, runner>>

\* generateCrossBrowserReport(): it prints the report, then calls require('fs')
\* in an ES module, which throws a ReferenceError before anything is written.
generateCrossBrowserReport ==
  /\ spc = "report"
  /\ script = "test-cross-browser"
  /\ printed' = printed \cup {<<"Report", "">>}
  /\ pending' = "require is not defined"
  /\ ranAfterFailure' = (ranAfterFailure \/ navFailed)
  /\ spc' = "rejected"
  /\ UNCHANGED <<script, reachable, profile, browsers, listening, navDelay, navSeconds, thrown,
                 errors, results, crashPoints, files, exitStatus, navFailed>>
  /\ UNCHANGED gotos
  /\ crossSummary' = [totalTests |-> Len(results),
                      successfulTests |-> Cardinality({i \in 1..Len(results) : results[i].success})]
  /\ UNCHANGED <<pageAll, runnerVars, touchListeners, orbitalVars, runner>>

\* generateDiagnosticReport(): it prints the report and writes the file with
\* the imported fs (no recommendation without a crash point, else up to two);
\* the script ends.
generateDiagnosticReport ==
  /\ spc = "profilesDone"
  /\ script = "test-mobile-safari"
  /\ printed' = printed \cup {<<"Report", "">>}
  /\ files' = files \cup {"safari-diagnostics-report.json"}
  /\ \E n \in (IF crashPoints = 0 THEN {0} ELSE 0..2) :
       workdir' = [workdir EXCEPT !["safari-diagnostics-report.json"] =
                     [NoFile EXCEPT !.exists = TRUE, !.valid = TRUE, !.recommendations = n,
                        !.metrics = Len(results),
                        !.metricsOk = Cardinality({i \in 1..Len(results) : results[i].success})]]
  /\ ranAfterFailure' = (ranAfterFailure \/ navFailed)
  /\ spc' = "exited"
  /\ exitStatus' = 0
  /\ UNCHANGED <<script, reachable, profile, browsers, listening, navDelay, navSeconds, pending,
                 thrown, errors, results, crashPoints, navFailed>>
  /\ UNCHANGED gotos
  /\ UNCHANGED <<pageAll, summary, touchListeners, orbitalVars, crossSummary, runner>>

\* No handler of the script catches the rejection of a top-level await: Node
\* prints the error and ends the process with status 1.
UnhandledRejection ==
  /\ spc = "rejected"
  /\ printed' = printed \cup {<<"Uncaught", pending>>}
  /\ exitStatus' = 1
  /\ spc' = "exited"
  /\ UNCHANGED <<script, reachable, profile, browsers, listening, navDelay, navSeconds, pending,
                 thrown, errors, results, crashPoints, files, navFailed, ranAfterFailure>>
  /\ UNCHANGED gotos
  /\ UNCHANGED <<pageAll, runnerVars, touchListeners, orbitalVars, crossSummary, runner>>

\* The script is started; no page of the guide is open in this process.
ScriptInit ==
  /\ navUA = <<>>
  /\ winDPR = 1
  /\ gl = NoContext
  /\ htmlCanvases = <<>>
  /\ perfMemory = FALSE
  /\ windowAnimate = FALSE
  /\ pageOrbitals = NoOrbitals
  /\ PageLoaded
  /\ NoRunner
  /\ script \in Scripts
  /\ reachable \in BOOLEAN
  /\ spc = "start"
  /\ profile = 0
  /\ browsers = 0
  /\ listening = FALSE
  /\ navDelay = 0
  /\ navSeconds = 0
  /\ gotos = 0
  /\ pending = ""
  /\ thrown = <<>>
  /\ errors = <<>>
  /\ results = <<>>
  /\ crashPoints = 0
  /\ printed = {}
  /\ files = {}
  /\ exitStatus = -1
  /\ navFailed = FALSE
  /\ ranAfterFailure = FALSE
  /\ crossSummary = NoCrossSummary

\* The steps the script and the browser driver take by themselves.
ScriptStep ==
  \/ LaunchBrowser
  \/ InstallListeners
  \/ StartNavigation
  \/ NavigationSettles
  \/ ReadinessSettles
  \/ RunTests
  \/ CatchFailure
  \/ PrintCollected
  \/ CloseBrowser
  \/ LaunchProbe
  \/ CloseProbe
  \/ generateCrossBrowserReport
  \/ generateDiagnosticReport
  \/ UnhandledRejection

ScriptNext == ScriptStep \/ PageError \/ PageCrash

ScriptSpec == ScriptInit /\ [][ScriptNext]_vars

\* Node runs a continuation once its promise has settled, and the driver's
\* timers fire: a script step that stays possible is taken.
FairScriptSpec == ScriptSpec /\ WF_vars(ScriptStep)

(***************************************************************************)
(* The runner's summary, MobileDeviceTester.generateSummaryReport, over    *)
(* the report files a working directory can hold.                          *)
(***************************************************************************)
\* A file that exists and is not JSON.
BrokenFile == [NoFile EXCEPT !.exists = TRUE]

\* What generateDiagnosticReport serialises: timestamp, crashPoints,
\* performanceMetrics and zero to two recommendations; no summary.
SafariReports ==
  {[NoFile EXCEPT !.exists = TRUE, !.valid = TRUE, !.recommendations = n,
      !.metrics = ProfileCount("test-mobile-safari"), !.metricsOk = k] :
     n \in 0..2, k \in 0..ProfileCount("test-mobile-safari")}

\* What generateCrossBrowserReport serialises: the summary counts the device
\* profiles and the webglCapabilities entry, which never counts as a success;
\* zero or one recommendation.
CrossBrowserReports ==
  {[exists |-> TRUE, valid |-> TRUE, hasSummary |-> TRUE,
    totalTests |-> ProfileCount("test-cross-browser") + 1,
    successfulTests |-> k, recommendations |-> n, metrics |-> 0, metricsOk |-> 0] :
     k \in 0..ProfileCount("test-cross-browser"), n \in 0..1}

Directories ==
  {[f \in ReportNames |->
      IF f = "safari-diagnostics-report.json" THEN d[1] ELSE d[2]] :
     d \in ({NoFile, BrokenFile} \cup SafariReports)
            \X ({NoFile, BrokenFile} \cup CrossBrowserReports)}

\* The tests one report adds to totalTests and passedTests: those of its
\* summary, if the file exists, parses and has one.
CountedTests(c) ==
  IF c.exists /\ c.valid /\ c.hasSummary
    THEN [total |-> c.totalTests, passed |-> c.successfulTests]
    ELSE [total |-> 0, passed |-> 0]

\* The result of generateSummaryReport() in directory dir.
SummaryOf(dir) ==
  LET s == CountedTests(dir["safari-diagnostics-report.json"])
      c == CountedTests(dir["cross-browser-report.json"])
      total == s.total + c.total
      passed == s.passed + c.passed
  IN [ran |-> TRUE,
      read |-> {f \in ReportNames : dir[f].exists},
      totalTests |-> total,
      passedTests |-> passed,
      verdict |-> IF total = 0 THEN "none"
                  ELSE IF passed * 100 < 80 * total THEN "warning" ELSE "good"]

\* A summary that looks at the cross-browser report only.
generateSummaryReport_SkipsSafari ==
  /\ ~summary.ran
  /\ summary' = [SummaryOf(workdir) EXCEPT
                   !.read = {f \in {"cross-browser-report.json"} : workdir[f].exists}]
  /\ UNCHANGED <<workdir, pageAll, scriptVars, touchListeners, orbitalVars, crossSummary, runner>>

\* generateSummaryReport(): fs.existsSync, fs.readFileSync and JSON.parse on
\* each of the two reports, then the overall result.
generateSummaryReport ==
  /\ ~summary.ran
  /\ summary' = SummaryOf(workdir)
  /\ UNCHANGED <<workdir, pageAll, scriptVars, touchListeners, orbitalVars, crossSummary, runner>>

(***************************************************************************)
(* The runner, MobileDeviceTester.runAllTests: the server check, the two   *)
(* scripts as child processes, the summary.                                *)
(***************************************************************************)
\* The steps of runAllTests, in program order.
RunnerSteps == <<"check", "test-mobile-safari", "test-cross-browser", "summary">>

\* catch (error) of runAllTests: process.exit(1).
RunnerFails(r) == [r EXCEPT !.pc = "exited", !.exit = 1, !.child = FALSE]

\* A server check whose failure is only printed.
CheckServerRunning_Lenient ==
  /\ runner.pc = "check"
  /\ runner' = [runner EXCEPT !.steps = Append(runner.steps, "check"),
                              !.pc = "test-mobile-safari"]
  /\ UNCHANGED <<workdir, summary, pageAll, scriptVars, touchListeners, orbitalVars, crossSummary>>

\* checkServerRunning(): a response that is not ok and a rejected fetch both
\* end in throw new Error('Server not available'), which runAllTests catches.
CheckServerRunning ==
  /\ runner.pc = "check"
  /\ runner' = LET r == [runner EXCEPT !.steps = Append(runner.steps, "check")]
               IN IF runner.server = "up"
                    THEN [r EXCEPT !.pc = "test-mobile-safari"]
                    ELSE RunnerFails(r)
  /\ UNCHANGED <<workdir, summary, pageAll, scriptVars, touchListeners, orbitalVars, crossSummary>>

\* runCommand('node <script>.mjs'): execSync starts the script as a new
\* process, against the same URL, and blocks the runner until it has ended.
RunCommand ==
  /\ runner.pc \in {"test-mobile-safari", "test-cross-browser"}
  /\ ~runner.child
  /\ runner' = [runner EXCEPT !.steps = Append(runner.steps, runner.pc), !.child = TRUE]
  /\ script' = runner.pc
  /\ reachable' \in BOOLEAN
  /\ spc' = "start"
  /\ profile' = 0
  /\ browsers' = 0
  /\ listening' = FALSE
  /\ navDelay' = 0
  /\ navSeconds' = 0
  /\ gotos' = 0
  /\ pending' = ""
  /\ thrown' = <<>>
  /\ errors' = <<>>
  /\ results' = <<>>
  /\ crashPoints' = 0
  /\ printed' = {}
  /\ files' = {}
  /\ exitStatus' = -1
  /\ navFailed' = FALSE
  /\ ranAfterFailure' = FALSE
  /\ crossSummary' = NoCrossSummary
  /\ UNCHANGED <<workdir, summary, pageAll, touchListeners, orbitalVars>>

\* The child has ended: execSync returns, or throws on a non-zero status, which
\* runCommand rethrows and runAllTests catches.  After the last command
\* comes generateSummaryReport(), and the runner ends.
CommandEnds ==
  /\ runner.child
  /\ spc = "exited"
  /\ IF exitStatus # 0
       THEN /\ runner' = RunnerFails(runner)
            /\ UNCHANGED summary
       ELSE IF runner.pc = "test-mobile-safari"
         THEN /\ runner' = [runner EXCEPT !.pc = "test-cross-browser", !.child = FALSE]
              /\ UNCHANGED summary
         ELSE /\ summary' = SummaryOf(workdir)
              /\ runner' = [runner EXCEPT !.pc = "exited", !.child = FALSE, !.exit = 0,
                                          !.steps = Append(runner.steps, "summary")]
  /\ UNCHANGED <<workdir, pageAll, scriptVars, touchListeners, orbitalVars, crossSummary>>

\* The runner starts in a directory that holds no cross-browser report and
\* at most a Safari report of an earlier run, one without recommendations.
RunnerInit ==
  /\ navUA = <<>>
  /\ winDPR = 1
  /\ gl = NoContext
  /\ htmlCanvases = <<>>
  /\ perfMemory = FALSE
  /\ windowAnimate = FALSE
  /\ pageOrbitals = NoOrbitals
  /\ PageLoaded
  /\ NoScript
  /\ workdir \in {d \in Directories : /\ ~d["cross-browser-report.json"].exists
                                      /\ d["safari-diagnostics-report.json"].recommendations = 0}
  /\ summary = NoSummary
  /\ \E sv \in {"up", "error", "down"} :
       runner = [IdleRunner EXCEPT !.pc = "check", !.server = sv]

\* The steps of the child process.
ChildStep ==
  \/ LaunchBrowser
  \/ InstallListeners
  \/ StartNavigation
  \/ NavigationSettles
  \/ ReadinessSettles
  \/ RunTests
  \/ CatchFailure
  \/ CloseBrowser
  \/ LaunchProbe
  \/ CloseProbe
  \/ generateCrossBrowserReport
  \/ generateDiagnosticReport
  \/ UnhandledRejection
  \/ PageError
  \/ PageCrash

RunnerNext ==
  \/ CheckServerRunning
  \/ RunCommand
  \/ ChildStep
  \/ CommandEnds

RunnerSpec == RunnerInit /\ [][RunnerNext]_vars

SummaryInit ==
  /\ navUA = <<>>
  /\ winDPR = 1
  /\ gl = NoContext
  /\ htmlCanvases = <<>>
  /\ perfMemory = FALSE
  /\ windowAnimate = FALSE
  /\ pageOrbitals = NoOrbitals
  /\ PageLoaded
  /\ NoScript
  /\ workdir \in Directories
  /\ summary = NoSummary
  /\ runner = IdleRunner

SummaryNext == generateSummaryReport

SummarySpec == SummaryInit /\ [][SummaryNext]_vars

(***************************************************************************)
(* Properties of the page and its two helper classes.                      *)
(***************************************************************************)
Range(q) == {q[i] : i \in 1..Len(q)}

Count(q, x) == Cardinality({i \in 1..Len(q) : q[i] = x})

\* C1: once a webglcontextlost event has fired on the page the guide
\* initialises, the 3D canvas is gone from the document and the 2D fallback
\* canvas is mounted with its animation loop running.
C1_ContextLossMountsFallback ==
  lossEvents > 0 =>
    /\ "3d" \notin Range(canvases)
    /\ "fallback" \in Range(canvases)
    /\ fb.fallbackMode
    /\ rafChains # {}

\* C2: whatever calls of handleWebGLContextLoss one WebGLFallback receives,
\* fallback mode is enabled at most once: never a second fallback canvas, a
\* second animation loop or a second notification.
C2_FallbackEnabledAtMostOnce ==
  /\ fbStats.mounted <= 1
  /\ fbStats.loops <= 1
  /\ fbStats.banners <= 1
  /\ Count(canvases, "fallback") <= 1
  /\ Cardinality(rafChains) <= 1
  /\ fb.fallbackMode => fbStats.mounted = 1

\* handleWebGLContextLoss has been called again on an instance already in
\* fallback mode.
C2_Witness ==
  /\ fb.fallbackMode
  /\ fbCalls = MaxFallbackCalls
  /\ fbStats.mounted = 1

\* C3: after fallback was entered because no WebGL context could be obtained,
\* the document holds exactly one canvas, the fallback canvas, whatever
\* number of canvases it held before.
C3_OneCanvasAfterNoContext ==
  (pc = "fallback" /\ ~gl.context) => canvases = <<"fallback">>

\* C4: the constructor's detectWebGLSupport enables fallback mode exactly when
\* no context is returned, the renderer or vendor string contains a
\* blocklisted driver name, MAX_TEXTURE_SIZE is below 1024, MAX_VERTEX_ATTRIBS
\* is below 8, or the capability query throws; otherwise it returns true,
\* fallbackMode stays false and no fallback canvas is created.
C4_DetectDecidesFallback ==
  pc = "fallback" =>
    LET blocklisted == \E driver \in problematicDrivers :
                          Includes(gl.renderer, driver) \/ Includes(gl.vendor, driver)
        unfit == \/ ~gl.context
                 \/ blocklisted
                 \/ gl.paramThrows
                 \/ gl.maxTextureSize < 1024
                 \/ gl.maxVertexAttribs < 8
    IN /\ fb.fallbackMode <=> unfit
       /\ detectWebGLSupport(gl) <=> ~unfit
       /\ unfit => fbStats.mounted = 1 /\ "fallback" \in Range(canvases) /\ rafChains # {}
       /\ ~unfit => fbStats = NoStats /\ canvases = htmlCanvases /\ ~fb.canvas

\* A working context whose MAX_TEXTURE_SIZE alone is too small put the
\* constructor into fallback mode.
C4_Witness ==
  /\ pc = "fallback"
  /\ gl.context /\ ~gl.paramThrows /\ ~gl.debugInfo
  /\ gl.maxTextureSize = 512 /\ gl.maxVertexAttribs = 8
  /\ fb.fallbackMode

\* The user agent holds one of the tokens iPhone, iPad, iPod, Android as written.
HasMobileToken(ua) == \E i \in 1..Len(ua) : ua[i] \in {"iPhone", "iPad", "iPod", "Android"}

\* The user agent matches no mobile token, in any letter case.
NoMobileToken(ua) ==
  \A i \in 1..Len(ua) : Lower(ua[i]) \notin {"iphone", "ipad", "ipod", "android"}

\* window.devicePixelRatio || 1
RatioOrOne(dpr) == IF dpr = 0 THEN 1 ELSE dpr

C6_DesktopBundle ==
  [][(pc = "load" /\ pc' = "optimizer" /\ NoMobileToken(navUA)) =>
       /\ opt'.constructed
       /\ ~opt'.isMobile
       /\ getOptimizedStarCount(opt') = 400
       /\ getPerformanceSettings(opt').pixelRatio = Min(RatioOrOne(winDPR), 2)
       /\ getPerformanceSettings(opt').enableShadows
       /\ getPerformanceSettings(opt').shadowMapSize = 2048
       /\ getPerformanceSettings(opt').maxLights = 8
       /\ getOptimizedCameraSettings(opt').fov = 60
       /\ getOptimizedCameraSettings(opt').nearTenths = 10
       /\ getOptimizedCameraSettings(opt').far = 2000
       /\ getOptimizedRendererOptions(opt').antialias
       /\ opt'.memoryLimit = 1024]_vars

\* An optimizer constructed under the empty user agent on a dense display
\* has answered a performance-settings call.
C6_Witness ==
  /\ opt.constructed /\ ~opt.isMobile /\ opt.devicePixelRatio = 3
  /\ navUA = <<>>
  /\ returned # <<>>
  /\ returned[1] = "getPerformanceSettings"

\* C7: from its construction on, no getter call, monitor tick, context-loss or
\* context-restore event changes isMobile, isSafari, isIOS, devicePixelRatio
\* or memoryLimit of an optimizer, and every getter returns the same bundle on
\* every call, even after window.devicePixelRatio or the user agent changed.
C7_DecisionMadeOnce ==
  [][(opt.constructed /\ opt'.constructed) =>
       /\ opt'.isMobile = opt.isMobile
       /\ opt'.isSafari = opt.isSafari
       /\ opt'.isIOS = opt.isIOS
       /\ opt'.devicePixelRatio = opt.devicePixelRatio
       /\ opt'.memoryLimit = opt.memoryLimit
       /\ \A g \in Getters : CallGetter(g, opt)' = CallGetter(g, opt)]_vars

\* An optimizer has lived through a context-loss event and a switch from a
\* desktop to a mobile device of another pixel ratio, and has answered a
\* getter call.
C7_Witness ==
  /\ opt.constructed
  /\ ~opt.isMobile /\ HasMobileToken(navUA)
  /\ RatioOrOne(winDPR) # opt.devicePixelRatio
  /\ lossEvents > 0
  /\ returned # <<>>

(***************************************************************************)
(* Properties of the automation scripts.                                   *)
(***************************************************************************)
\* The scripts that collect page errors with page.on('pageerror').
PageErrorScripts == {"check", "check-detailed", "check-site", "test-prod"}

NavigationFailureReported ==
  \E line \in printed :
    /\ line[1] \in {"Failed", "Uncaught"}
    /\ line[2] \in {"Navigation timeout", "net::ERR_CONNECTION_REFUSED"}

\* C9: no navigation takes longer than the script's navigation timeout (15 s
\* in check, check-detailed and test-prod, 20 s in check-site and
\* screenshot-test, 30 s per navigation in the multi-profile scripts), and a
\* script started against an unreachable URL ends, with a navigation failure
\* on its output.
C9_UnreachableTerminates ==
  /\ [](navSeconds <= CASE script \in {"check", "check-detailed", "test-prod"} -> 15
                        [] script \in {"check-site", "screenshot-test"} -> 20
                        [] OTHER -> 30)
  /\ (script \in SingleScripts \cup MultiScripts /\ spc = "start" /\ ~reachable)
       ~> (spc = "exited" /\ NavigationFailureReported)

\* A script has ended against an unreachable URL whose connection attempt
\* never settled by itself: the timeout ended the navigation.
C9_Witness ==
  /\ ~reachable
  /\ spc = "exited"
  /\ navDelay = -1
  /\ navSeconds = NavTimeout(script)
  /\ NavigationFailureReported

\* C10 as stated: in every script a navigation or timeout failure is caught at
\* the top level and printed, no later test step runs, and the process exits
\* with a non-zero status.
C10_FailureAbortsScript ==
  navFailed =>
    /\ ~ranAfterFailure
    /\ spc = "exited" => /\ exitStatus # 0
                         /\ \E line \in printed : line[1] = "Uncaught"

\* C10, amended: in a single-session script the failed navigation is caught by
\* no handler of the script: no later step runs, Node prints the error and the
\* process ends with status 1.  In a multi-profile script the failure is
\* caught inside the profile's test, which prints the message and records a
\* failed result; every later profile and the report still run, and the
\* Safari script ends with status 0.
C10_FailureHandling ==
  /\ (script \in SingleScripts /\ navFailed) =>
       /\ ~ranAfterFailure
       /\ spc \in {"rejected", "exited"}
       /\ pending \in {"Navigation timeout", "net::ERR_CONNECTION_REFUSED"}
       /\ spc = "exited" => (exitStatus = 1 /\ <<"Uncaught", pending>> \in printed)
  /\ script \in MultiScripts =>
       /\ \A i \in 1..Len(results) :
            (results[i].profile # 0 /\ ~results[i].success) =>
               <<"Failed", results[i].error>> \in printed
       /\ (navFailed /\ spc \notin {"caught"}) =>
            \E i \in 1..Len(results) : ~results[i].success /\ results[i].profile # 0
       /\ spc = "exited" =>
            /\ \A p \in 1..ProfileCount(script) :
                 \E i \in 1..Len(results) : results[i].profile = p
            /\ navFailed => ranAfterFailure
            /\ script = "test-mobile-safari" => exitStatus = 0

\* The Safari script has ended with status 0 after its first profile failed
\* to load and its second loaded.
C10_Witness ==
  /\ script = "test-mobile-safari"
  /\ spc = "exited"
  /\ exitStatus = 0
  /\ ~results[1].success
  /\ results[2].success
  /\ crashPoints = 1

\* The messages a failed navigation or readiness wait leaves.
NavigationFailures ==
  {"Navigation timeout", "net::ERR_CONNECTION_REFUSED", "Waiting failed", "Page crashed!"}

C12_NoNavigationRetry ==
  /\ [](gotos <= 1)
  /\ [][(gotos' > gotos) => (gotos = 0 /\ spc = "ready")]_vars
  /\ [][(spc \in {"caught", "rejected"} /\ browsers' >= browsers) => gotos' = gotos]_vars

\* A profile's navigation has failed and its session is about to be closed
\* after that single call of page.goto.
C12_Witness ==
  /\ script = "test-cross-browser"
  /\ spc = "closing"
  /\ navFailed
  /\ results # <<>>
  /\ ~results[Len(results)].success
  /\ gotos = 1

\* C13 as stated: at most one browser is open at any moment, and every
\* launched browser has been closed when the script ends, on every path.
C13_EveryBrowserClosed ==
  /\ browsers <= 1
  /\ spc = "exited" => browsers = 0

\* C13, amended: at most one browser is open at any moment; a multi-profile
\* script has closed every browser it launched when it ends, on every path;
\* a single-session script has closed its browser when it ends after a
\* successful navigation, and leaves it open when its navigation failed.
C13_BrowserLifetime ==
  /\ browsers \in {0, 1}
  /\ spc \in {"start", "profilesDone", "report"} => browsers = 0
  /\ spc = "exited" =>
       IF script \in SingleScripts /\ navFailed THEN browsers = 1 ELSE browsers = 0

\* check-detailed has ended on a failed navigation with its browser open.
C13_Witness ==
  /\ script = "check-detailed"
  /\ spc = "exited"
  /\ navFailed
  /\ exitStatus = 1
  /\ browsers = 1

\* C14: context-loss handling prevents infinite crash loops: in no run does
\* the page keep reloading forever, so from some moment on the page is never
\* again at the start of a load.
C14_NoInfiniteCrashLoop == <>[](pc # "load")

\* C15: once the guide's initialisation has run setupWebGLProtection(renderer)
\* on a device that exposes window.performance.memory, the 5-second memory
\* monitor is running.
C15_MonitorOnEveryDevice ==
  (pc = "running" /\ renderer.created /\ perfMemory) => monitors > 0

\* C16: on each tick of the memory monitor, triggerMemoryCleanup is called
\* if the used heap is above 80% of the heap limit, emergencyMemoryCleanup as
\* well if it is above 95%; at 80% or below neither is called and nothing but
\* currentMemoryUsage changes.
C16_TickThresholds ==
  [][MemoryMonitorTick =>
       \E m \in MemoryReadings :
         /\ opt'.currentMemoryUsage = m.usedMB
         /\ ("triggerMemoryCleanup" \in Range(lastCleanup')) <=> (m.usedMB * 100 > 80 * m.limitMB)
         /\ ("emergencyMemoryCleanup" \in Range(lastCleanup')) <=> (m.usedMB * 100 > 95 * m.limitMB)
         /\ (m.usedMB * 100 <= 80 * m.limitMB) =>
              /\ lastCleanup' = <<>>
              /\ opt' = [opt EXCEPT !.currentMemoryUsage = m.usedMB]
              /\ UNCHANGED <<pc, envVars, returned, canvases, fbVars, renderer, protection,
                             monitors, overlays, reloadTimers, lossEvents, scriptVars, runnerVars, touchListeners, pageOrbitals, crossSummary, runner>>
              /\ orbitals' = orbitals]_vars

\* A tick has read 191 MB of a 200 MB limit and called both cleanups.
C16_Witness ==
  /\ monitors > 0
  /\ opt.currentMemoryUsage = 191
  /\ lastCleanup = <<"triggerMemoryCleanup", "emergencyMemoryCleanup", "triggerMemoryCleanup">>

\* C17: whenever fallback mode is enabled a notification banner is added, and
\* every banner is removed again when its 5 s timer fires, so none stays for
\* ever; removing a banner leaves the fallback canvas and its animation loop
\* as they were.
C17_BannerIsTransient ==
  /\ [][(~fb.fallbackMode /\ fb'.fallbackMode) => notifications' = notifications + 1]_vars
  /\ (notifications > 0) ~> (notifications = 0)
  /\ [][notifications' < notifications =>
          /\ notifications' = notifications - 1
          /\ UNCHANGED <<canvases, fb, rafChains, resizeListeners, fbStats>>]_vars

\* The banner of an enabled fallback has gone while its canvas and loop remain.
C17_Witness ==
  /\ fb.fallbackMode
  /\ fbStats.banners = 1
  /\ notifications = 0
  /\ canvases # <<>> /\ canvases[Len(canvases)] = "fallback"
  /\ rafChains # {}

\* The size, transform and contents of the fallback canvas.
CanvasState == <<fb.size, fb.transform, fb.painted>>

\* A step of the running fallback loop: animate() has advanced animationTime.
IsFrameCallback == fb.fallbackMode /\ fb'.animationTime = fb.animationTime + 1

\* A step in which the resize listener has run resizeCanvas().
IsResizeListener ==
  /\ fb'.animationTime = fb.animationTime
  /\ ~fb'.painted
  /\ fb'.size = RatioOrOne(winDPR')
  /\ fb'.transform = RatioOrOne(winDPR')

C20_NoOpOnDesktop ==
  /\ []((opt.constructed /\ ~opt.isMobile /\ returned # <<>>
         /\ returned[1] = "optimizeTextureForMobile") => returned[2] = returned[3])
  /\ []((opt.constructed /\ ~opt.isMobile) =>
          (touchListeners = 0 /\ opt.loadPriority = <<>>))
  /\ [][(opt.constructed /\ ~opt.isMobile) =>
          UNCHANGED <<pc, envVars, opt, canvases, fbVars, pageVars, touchListeners, orbitalVars, crossSummary, runner>>]_vars

\* A desktop optimizer has handed a 2048 px texture back.
C20_Witness ==
  /\ opt.constructed
  /\ ~opt.isMobile
  /\ returned # <<>>
  /\ returned[1] = "optimizeTextureForMobile"
  /\ returned[3].size = 2048

\* The objects emergencyMemoryCleanup drops from array o: those behind the
\* first two.
DroppedOrbitals(o) == {o.list[i] : i \in 3..Len(o.list)}

\* C21: emergencyMemoryCleanup keeps exactly the first two entries of
\* window.orbitalObjects, unchanged and in order, drops every later entry and
\* detaches each dropped entry that has a parent; afterwards the list has at
\* most two entries and triggerMemoryCleanup has run.
C21_EmergencyKeepsFirstTwo ==
  [][(MemoryMonitorTick /\ "emergencyMemoryCleanup" \in Range(lastCleanup')) =>
       /\ lastCleanup'[Len(lastCleanup')] = "triggerMemoryCleanup"
       /\ lastCleanup'[Len(lastCleanup') - 1] = "emergencyMemoryCleanup"
       /\ orbitals'.defined = orbitals.defined
       /\ orbitals.defined =>
            /\ Len(orbitals'.list) <= 2
            /\ orbitals'.list = [i \in 1..Min(2, Len(orbitals.list)) |-> orbitals.list[i]]
            /\ orbitals'.attached \cap DroppedOrbitals(orbitals) = {}
            /\ \A x \in Range(orbitals'.list) :
                 /\ (x \in orbitals'.attached) <=> (x \in orbitals.attached)
                 /\ (x \in orbitals'.disposed) <=> (x \in orbitals.disposed)]_vars

\* An emergency cleanup has dropped and detached the third object of a page
\* whose three objects were all in the scene.
C21_Witness ==
  /\ pageOrbitals.defined
  /\ pageOrbitals.list = <<1, 2, 3>>
  /\ pageOrbitals.attached = {1, 2, 3}
  /\ orbitals.list = <<1, 2>>
  /\ orbitals.attached = {1, 2}
  /\ orbitals.disposed = {3}
  /\ "emergencyMemoryCleanup" \in Range(lastCleanup)

\* The multi-profile script has tested its last profile.
ProfilesTested ==
  /\ script \in MultiScripts
  /\ spc \in {"profilesDone", "probe", "report", "rejected", "exited"}

C23_ReportAlwaysWritten ==
  (script = "test-cross-browser" /\ spc = "exited") =>
    /\ "cross-browser-report.json" \in files
    /\ exitStatus = 0
    /\ pending = ""

\* C24: the summary of the cross-browser report counts device profiles only:
\* totalTests is the number of device profiles tested and successfulTests the
\* number of them with success true, so a run in which every device profile
\* succeeds reports a success rate of 100%.
C24_SummaryCountsProfilesOnly ==
  (script = "test-cross-browser" /\ spc \in {"rejected", "exited"}) =>
    /\ crossSummary.totalTests = ProfileCount(script)
    /\ crossSummary.successfulTests =
         Cardinality({i \in 1..Len(results) : results[i].profile # 0 /\ results[i].success})
    /\ (\A i \in 1..Len(results) : results[i].profile # 0 => results[i].success) =>
         crossSummary.successfulTests * 100 = 100 * crossSummary.totalTests

\* C25: runAllTests runs its steps strictly in the order server check, Safari
\* diagnostics, cross-browser tests, summary report: the steps taken are always
\* an initial part of that order.  When the server check fails the runner ends
\* after that one step, and when a command fails it ends after that command:
\* in both cases no summary is generated and the exit status is 1, and nothing
\* runs after the exit.
C25_StepsInOrder ==
  /\ [](/\ Len(runner.steps) <= Len(RunnerSteps)
        /\ \A i \in 1..Len(runner.steps) : runner.steps[i] = RunnerSteps[i]
        /\ (runner.pc = "exited" /\ runner.server # "up") =>
             runner.steps = <<"check">>
        /\ (runner.pc = "exited" /\ Len(runner.steps) < Len(RunnerSteps)) =>
             /\ runner.exit = 1
             /\ ~summary.ran
        /\ (runner.child /\ spc = "exited" /\ exitStatus # 0) =>
             /\ ~summary.ran
             /\ runner.steps[Len(runner.steps)] = script
        /\ runner.exit = 1 => ~summary.ran)
  /\ [][/\ (runner.child /\ spc = "exited" /\ exitStatus # 0) =>
             /\ runner'.pc = "exited"
             /\ runner'.exit = 1
             /\ runner'.steps = runner.steps
        /\ runner.pc = "exited" => UNCHANGED vars]_vars

\* A run whose cross-browser command failed: three steps were taken, no
\* summary was generated and the runner has exited with status 1.
C25_Witness ==
  /\ runner.pc = "exited"
  /\ runner.exit = 1
  /\ runner.steps = <<"check", "test-mobile-safari", "test-cross-browser">>
  /\ ~summary.ran
  /\ exitStatus # 0

\* The tests a report holds: those of its summary, and the per-configuration
\* records of its performanceMetrics.
TestsIn(c) ==
  IF c.exists /\ c.valid
    THEN [total |-> (IF c.hasSummary THEN c.totalTests ELSE 0) + c.metrics,
          passed |-> (IF c.hasSummary THEN c.successfulTests ELSE 0) + c.metricsOk]
    ELSE [total |-> 0, passed |-> 0]

C27_ReloadNeverCancelled ==
  /\ [][/\ (protection /\ lossEvents' = lossEvents + 1) =>
             /\ ~renderer'.animationLoop
             /\ reloadTimers' = reloadTimers + 1
             /\ overlays' = overlays + 1
        /\ reloadTimers' < reloadTimers => (pc = "running" /\ pc' = "load")
        /\ (reloadTimers > 0 /\ ~renderer.animationLoop /\ renderer'.animationLoop) =>
             reloadTimers' = reloadTimers]_vars
  /\ (reloadTimers > 0) ~> (pc = "load")

\* Two context losses were handled and the context was restored: two reloads
\* are pending while the animation loop runs again.
C27_Witness ==
  /\ pc = "running"
  /\ protection
  /\ lossEvents = 2
  /\ reloadTimers = 2
  /\ overlays = 2
  /\ renderer.animationLoop

\* C28: after stop() the animationId is null and the fallback loop renders no
\* further frame, while fallbackMode stays true.  fallbackMode never returns
\* to false, so a handleWebGLContextLoss that comes later neither restarts the
\* animation nor mounts a canvas.
C28_StopIsFinal ==
  /\ []((fb.fallbackMode /\ fb.animationId = 0) => rafChains = {})
  /\ [][/\ (fb.animationId # 0 /\ fb'.animationId = 0) =>
             (fb'.fallbackMode /\ rafChains' = {})
        /\ (fb.fallbackMode /\ fb.animationId = 0) =>
             /\ fb'.animationId = 0
             /\ fb'.animationTime = fb.animationTime
             /\ canvases' = canvases
             /\ fbStats' = fbStats
        /\ fb.fallbackMode => fb'.fallbackMode
        /\ (fb.fallbackMode /\ fbCalls' = fbCalls + 1) =>
             UNCHANGED <<fb, canvases, rafChains, fbStats>>]_vars

\* The fallback was mounted once and stopped before its last frame, and
\* handleWebGLContextLoss has been called as often as the bound allows.
C28_Witness ==
  /\ fb.fallbackMode
  /\ fb.animationId = 0
  /\ fb.animationTime < MaxFrames
  /\ fbStats.mounted = 1
  /\ fbCalls = MaxFallbackCalls

====
